---- MODULE Spec2Model ----
(***************************************************************************)
(* Upload pipeline of upload-app: the status store (table                  *)
(* historico_uploads), the BullMQ queue 'upload-processing' with its       *)
(* single worker, the in-process fallback of addToQueue, the pipeline      *)
(* processFileDirectly and cancelFromQueue.                                *)
(*                                                                         *)
(* Every await of the source is one step of the model: between two awaits  *)
(* the Node event loop may run any other handler (the worker's processor,  *)
(* an upload request, a cancel request).                                   *)
(*                                                                         *)
(* The model follows one upload.  Every store access of the source is      *)
(* keyed by the upload's id and every queue lookup by job.data.id, so the  *)
(* other uploads act on this one only by keeping the single worker busy:   *)
(* that is the variable otherActive.                                       *)
(***************************************************************************)
EXTENDS Integers, Sequences, FiniteSets, TLC

\* ------------------------------------------------------------------ bounds
MaxCancels == 2
\* pages of an answer of the OCR service
MaxPages == 2

\* ------------------------------------------------------- program constants
Attempts == 5
MaxStalledCount == 3

\* the upload the model follows
Ids == {1}

\* execution slots of processFileDirectly: slot 0 is the worker's processor
\* (concurrency 1), slot i is the in-process run inside addToQueue(i)
WorkerSlot == 0
Slots == {WorkerSlot} \cup Ids

Undefined == "undefined"
NoLink == "null"

StatusValues == {"pending", "processing", "completed", "error", "cancelled"}
Absent == "absent"

\* ------------------------------------------------------------ file payload
FileBytes == <<37, 80, 68, 70>>

\* a Buffer holding the given bytes
BufferOf(bytes) == [isBuffer |-> TRUE, isObject |-> TRUE, hasType |-> FALSE,
                    type |-> Undefined, hasData |-> FALSE, dataIsArray |-> FALSE,
                    data |-> bytes]

\* the Buffer built by the upload route
FileBuffer == BufferOf(FileBytes)

\* what the queue transport (JSON in Redis) makes of a payload: a Buffer
\* becomes {type: 'Buffer', data: [...]}, other values are kept
ToJSON(buf) ==
    IF buf.isBuffer
    THEN [isBuffer |-> FALSE, isObject |-> TRUE, hasType |-> TRUE, type |-> "Buffer",
          hasData |-> TRUE, dataIsArray |-> TRUE, data |-> buf.data]
    ELSE buf

\* payloads that are no Buffer: {type: 'Buffer'} without data, an object
\* whose data is no array, an empty object, a string
OtherPayloads ==
    { [isBuffer |-> FALSE, isObject |-> o, hasType |-> ht, type |-> ty,
       hasData |-> hd, dataIsArray |-> FALSE, data |-> <<>>] :
        o \in BOOLEAN, ht \in BOOLEAN, ty \in {Undefined, "Buffer"}, hd \in BOOLEAN }

\* an object with a data array that no Buffer was serialised to
DataArrayOnly == [isBuffer |-> FALSE, isObject |-> TRUE, hasType |-> FALSE,
                  type |-> Undefined, hasData |-> TRUE, dataIsArray |-> TRUE,
                  data |-> <<300, 1>>]

\* every payload processFileDirectly is tried with
Payloads ==
    {BufferOf(FileBytes), BufferOf(<<0, 255>>), ToJSON(FileBuffer), DataArrayOnly}
      \cup { q \in OtherPayloads : /\ q.hasType <=> q.type # Undefined
                                   /\ ~q.isObject => ~q.hasType /\ ~q.hasData }

\* Buffer.from(array): every element is taken modulo 256
BufferFrom(arr) == [i \in 1..Len(arr) |-> arr[i] % 256]

DecodeOnlyNativeBuffer(fileBuffer) ==
    IF fileBuffer.isBuffer
    THEN [ok |-> TRUE, bytes |-> fileBuffer.data]
    ELSE [ok |-> FALSE, bytes |-> <<>>]

DecodeTypeBuffer(fileBuffer) ==
    IF fileBuffer.isBuffer
    THEN [ok |-> TRUE, bytes |-> fileBuffer.data]
    ELSE IF fileBuffer.isObject /\ (fileBuffer.hasData \/ fileBuffer.type = "Buffer")
         THEN [ok |-> TRUE, bytes |-> BufferFrom(fileBuffer.data)]
         ELSE [ok |-> FALSE, bytes |-> <<>>]

\* the payload normalisation of processFileDirectly
DecodePayload(fileBuffer) ==
    IF fileBuffer.isBuffer
    THEN [ok |-> TRUE, bytes |-> fileBuffer.data]
    ELSE IF fileBuffer.isObject /\ fileBuffer.hasData /\ fileBuffer.dataIsArray
         THEN [ok |-> TRUE, bytes |-> BufferFrom(fileBuffer.data)]
         ELSE [ok |-> FALSE, bytes |-> <<>>]

\* the payload a slot's execution receives
PayloadOf(s, given) == IF s = WorkerSlot THEN ToJSON(given) ELSE given

\* ------------------------------------------------------ template dispatch
ValidTemplates == {"fatura-agibank", "extrato-agibank", "fatura-bmg",
                   "extrato-bmg", "pje-remuneracao", "pje-horas"}
MappedTemplates == {"fatura-agibank", "extrato-agibank", "fatura-bmg", "extrato-bmg"}
\* the templates the model uploads with: one mapped, one only validated
UploadTemplates == {"fatura-agibank", "pje-horas"}

\* N8N_WEBHOOK_URL as set by docker-compose; no per-template override
N8nWebhookUrl == "http://n8n/webhook"
WebhookUrlForAll(t) == N8nWebhookUrl

\* the URL processOcrDataByTemplate finds; for a template without entry in
\* webhookConfig the read of .url throws inside the try block, as the
\* missing URL does
WebhookUrl(t) == IF t \in MappedTemplates THEN N8nWebhookUrl ELSE ""

\* the environment of the service: N8N_WEBHOOK_URL and the per-template
\* N8N_WEBHOOK_<TEMPLATE>_URL, each unset (empty) or set
Envs == [shared : {"", N8nWebhookUrl}, own : [MappedTemplates -> {"", "http://n8n/own"}]]

\* webhookConfig[template].url: own URL || shared URL || ''
UrlOf(env, t) == IF env.own[t] # "" THEN env.own[t] ELSE env.shared

\* the keys of webhookConfig in their order
TemplateOrder == <<"fatura-agibank", "extrato-agibank", "fatura-bmg", "extrato-bmg">>

IsConfiguredByOwnUrl(env, t) == env.own[t] # ""

\* isWebhookConfigured
IsWebhookConfigured(env, t) == UrlOf(env, t) # ""

\* getConfiguredTemplates: the entries with a URL, in key order
GetConfiguredTemplates(env) ==
    LET HasUrl(t) == UrlOf(env, t) # "" IN SelectSeq(TemplateOrder, HasUrl)

\* a 2xx reply of the webhook: its link and result fields
WebhookReplies == { [link |-> l, result |-> r] :
                      l \in {Undefined, "http://x/1"}, r \in {Undefined, "R"} }

\* response.data.link || response.data.result
LinkOrResult(reply) == IF reply.link # Undefined THEN reply.link ELSE reply.result

\* the POST to the webhook failed (network error, timeout, non-2xx)
PostFailed == [link |-> "failed", result |-> "failed"]
HttpOutcomes == WebhookReplies \cup {PostFailed}

PostWithoutUrlCheck(url, http) ==
    IF http = PostFailed
    THEN [success |-> FALSE, error |-> "request failed", link |-> Undefined, posted |-> TRUE]
    ELSE [success |-> TRUE, error |-> Undefined, link |-> LinkOrResult(http), posted |-> TRUE]

\* processOcrDataByTemplate: without URL it throws before the POST and the
\* catch returns the failure; posted tells whether axios.post was called
ProcessOcrDataByTemplate(url, http) ==
    IF url = ""
    THEN [success |-> FALSE, error |-> "Webhook URL não configurada",
          link |-> Undefined, posted |-> FALSE]
    ELSE IF http = PostFailed
         THEN [success |-> FALSE, error |-> "request failed",
               link |-> Undefined, posted |-> TRUE]
         ELSE [success |-> TRUE, error |-> Undefined,
               link |-> LinkOrResult(http), posted |-> TRUE]

\* ----------------------------------------------------------- OCR service
\* the page lists of an answer: pages in any order of their numbers
RECURSIVE PageLists(_)
PageLists(n) ==
    IF n = 0 THEN {<<>>}
    ELSE LET shorter == PageLists(n - 1) IN
         shorter \cup { Append(l, [pagina |-> g, texto |-> x]) :
                          l \in {k \in shorter : Len(k) = n - 1},
                          g \in {1, 2}, x \in {"", "A", "B"} }

\* a 2xx answer of the OCR API: texto_extraido present or not, a flat
\* extracted_text present or not, the flag sucesso
OcrResponses ==
    [hasPages : BOOLEAN, texto_extraido : PageLists(MaxPages),
     hasFlat : BOOLEAN, extracted_text : {"", "flat text"}, sucesso : BOOLEAN]

\* array.join(sep)
RECURSIVE Join(_, _)
Join(texts, sep) ==
    IF Len(texts) = 0 THEN ""
    ELSE IF Len(texts) = 1 THEN texts[1]
         ELSE texts[1] \o sep \o Join(Tail(texts), sep)

\* extractTextFromPdf: texto_extraido ? pages' texto joined by '\n\n' : ''
ExtractedText(response) ==
    IF response.hasPages
    THEN Join([k \in 1..Len(response.texto_extraido) |-> response.texto_extraido[k].texto],
              "\n\n")
    ELSE ""

\* the OCR service's answers seen by processFileByTemplate
OcrResults == { [success |-> s, text |-> t, sucesso |-> u] :
                  s \in BOOLEAN, t \in {"", "abc"}, u \in BOOLEAN }

\* ocrResult of an execution that has not called the OCR service
NoOcrResult == [success |-> FALSE, text |-> Undefined, sucesso |-> FALSE]

OcrAcceptedAlways(r) == TRUE

\* processFileByTemplate: throws unless the call succeeded and there is text
\* or the service's own success flag
OcrAccepted(r) == r.success /\ ~(r.text = "" /\ ~r.sucesso)

VARIABLES
    redisAvailable,  \* the module-level flag set while creating queue and worker
    status,          \* historico_uploads.status by id (Absent: no row)
    link,            \* historico_uploads.link by id
    template,        \* template the upload was submitted with
    job,             \* state of the queue job of an id
    attemptsMade,    \* failed attempts the queue counted for the job
    otherActive,     \* the worker is processing the job of another upload
    stalledCount,    \* times the queue found the job stalled
    closed,          \* close() has shut the worker and the queue
    spc,             \* position of the upload request / addToQueue call
    route,           \* how addToQueue handed the upload over
    pc,              \* position of each execution of processFileDirectly
    xid,             \* id each execution works on
    xlink,           \* link || result held by the execution after dispatch
    currentStatus,   \* status the execution read at its first select
    ocrResult,       \* answer of the OCR service held by the execution
    outcome,         \* how the execution ended
    cpc,             \* position of the cancelFromQueue call of an id
    cWaiting,        \* target job found in the waiting/delayed snapshot
    cSeen,           \* status read by the first select of the cancel call
    cResult,         \* value returned by cancelFromQueue
    cancelCalls,     \* number of cancel calls started
    directRuns,      \* in-process runs of the pipeline per addToQueue call
    passed,          \* executions that got past the processing guard, per id
    ocrCalls,        \* calls of the OCR service, per id
    n8nCalls,        \* POSTs to a template webhook, per id
    failReported,    \* the OCR service or the webhook failed an execution, per id
    ocrFailed,       \* the OCR service failed an execution, per id
    emptyRefused,    \* an answer without text and without sucesso was refused, per id
    ocrAttempts,     \* deliveries of the job in which the worker called the OCR service
    okReported,      \* both succeeded for an execution, per id
    okLink,          \* the link || result of the last such execution, per id
    payload,         \* the file payload addToQueue was called with, per id
    fn,              \* the last application of a function of the services
    call             \* the call of getQueueStats, getQueueStatus or clearQueue

vars == <<redisAvailable, status, link, template, job, attemptsMade, otherActive,
          stalledCount, closed, ocrFailed, emptyRefused, ocrAttempts,
          spc, route,
          pc, xid, currentStatus, xlink, outcome, ocrResult, cpc, cWaiting, cSeen, cResult,
          cancelCalls, directRuns, passed, ocrCalls, n8nCalls,
          failReported, okReported, okLink, payload, fn, call>>

\* what no step of the upload pipeline changes
auxVars == <<payload, fn, call>>

storeVars == <<status, link>>
queueVars == <<job, attemptsMade, otherActive, stalledCount, closed>>
submitVars == <<spc, route, directRuns, template>>
execVars == <<pc, xid, currentStatus, xlink, outcome, ocrResult>>
cancelVars == <<cpc, cWaiting, cSeen, cResult, cancelCalls>>
reportVars == <<failReported, okReported, okLink>>
histVars == <<passed, ocrCalls, n8nCalls, reportVars, ocrFailed, emptyRefused, ocrAttempts>>

\* the variables of the upload pipeline
uploadVars == <<redisAvailable, status, link, template, job, attemptsMade, otherActive,
                stalledCount, closed, ocrFailed, emptyRefused, ocrAttempts, spc, route,
                pc, xid, currentStatus, xlink, outcome, ocrResult, cpc, cWaiting, cSeen, cResult,
                cancelCalls, directRuns, passed, ocrCalls, n8nCalls,
                failReported, okReported, okLink>>

InitUpload ==
    /\ redisAvailable \in BOOLEAN
    /\ status = [i \in Ids |-> Absent]
    /\ link = [i \in Ids |-> NoLink]
    /\ template = [i \in Ids |-> Undefined]
    /\ job = [i \in Ids |-> "none"]
    /\ attemptsMade = [i \in Ids |-> 0]
    /\ otherActive = FALSE
    /\ stalledCount = [i \in Ids |-> 0]
    /\ closed = FALSE
    /\ spc = [i \in Ids |-> "none"]
    /\ route = [i \in Ids |-> "none"]
    /\ pc = [s \in Slots |-> "idle"]
    /\ xid = [s \in Slots |-> s]
    /\ xlink = [s \in Slots |-> Undefined]
    /\ currentStatus = [s \in Slots |-> Undefined]
    /\ ocrResult = [s \in Slots |-> NoOcrResult]
    /\ outcome = [s \in Slots |-> "none"]
    /\ cpc = [i \in Ids |-> "idle"]
    /\ cWaiting = [i \in Ids |-> FALSE]
    /\ cSeen = [i \in Ids |-> Undefined]
    /\ cResult = [i \in Ids |-> Undefined]
    /\ cancelCalls = 0
    /\ directRuns = [i \in Ids |-> 0]
    /\ passed = [i \in Ids |-> 0]
    /\ ocrCalls = [i \in Ids |-> 0]
    /\ n8nCalls = [i \in Ids |-> 0]
    /\ failReported = [i \in Ids |-> FALSE]
    /\ ocrFailed = [i \in Ids |-> FALSE]
    /\ emptyRefused = [i \in Ids |-> FALSE]
    /\ ocrAttempts = [i \in Ids |-> 0]
    /\ okReported = [i \in Ids |-> FALSE]
    /\ okLink = [i \in Ids |-> Undefined]
    /\ fn = [name |-> "none"]
    /\ call = [op |-> "none", at |-> "done"]

\* the upload route hands addToQueue the Buffer it built from the file
Init ==
    /\ InitUpload
    /\ payload = [i \in Ids |-> FileBuffer]

\* ---------------------------------------------------------------- upload
SubmitDespiteError(error) == "addToQueue"

\* where the upload route goes after the insert: with an error it records
\* the failure and continues with the next file
AfterInsert(error) == IF error THEN "insertFailed" ELSE "addToQueue"

\* POST /api/upload, one file: insert the row as pending; the insert may
\* fail, and no row is written then.  addToQueue is the next step.
InsertUpload(i) ==
    /\ spc[i] = "none"
    /\ \A j \in Ids : j < i => spc[j] # "none"
    /\ \E error \in BOOLEAN :
         /\ spc' = [spc EXCEPT ![i] = AfterInsert(error)]
         /\ IF error
            THEN UNCHANGED <<template, storeVars>>
            ELSE /\ \E t \in UploadTemplates : template' = [template EXCEPT ![i] = t]
                 /\ status' = [status EXCEPT ![i] = "pending"]
                 /\ link' = [link EXCEPT ![i] = NoLink]
    /\ UNCHANGED <<redisAvailable, auxVars, queueVars, route, directRuns, execVars,
                   cancelVars, histVars>>

SkipDirect(i, where) ==
    /\ spc' = [spc EXCEPT ![i] = "returned"]
    /\ UNCHANGED <<pc, xid, currentStatus, xlink, outcome, ocrResult, directRuns>>

\* start one in-process run of processFileDirectly inside addToQueue(i)
StartDirect(i, where) ==
    /\ spc' = [spc EXCEPT ![i] = where]
    /\ pc' = [pc EXCEPT ![i] = "readStatus"]
    /\ xlink' = [xlink EXCEPT ![i] = Undefined]
    /\ outcome' = [outcome EXCEPT ![i] = "none"]
    /\ directRuns' = [directRuns EXCEPT ![i] = @ + 1]
    /\ UNCHANGED <<xid, currentStatus, ocrResult>>

\* addToQueue up to its first await: without Redis run the pipeline in
\* process; otherwise uploadQueue.add, which resolves (job waiting) or
\* rejects.  A rejection by commandTimeout does not tell whether Redis
\* executed the command: the job may have been added all the same.  A closed
\* queue rejects every add.
AddToQueue(i) ==
    /\ spc[i] = "addToQueue"
    /\ IF ~redisAvailable
       THEN /\ StartDirect(i, "direct")
            /\ route' = [route EXCEPT ![i] = "unavailable"]
            /\ UNCHANGED job
       ELSE \E res \in {"added", "rejected", "rejectedButAdded"} :
              /\ closed => res = "rejected"
              /\ route' = [route EXCEPT ![i] = res]
              /\ job' = [job EXCEPT ![i] =
                           IF res = "rejected" THEN @ ELSE "waiting"]
              /\ IF res = "added"
                 THEN /\ spc' = [spc EXCEPT ![i] = "returned"]
                      /\ UNCHANGED <<pc, xid, currentStatus, xlink, outcome, ocrResult, directRuns>>
                 ELSE StartDirect(i, "directInCatch")
    /\ UNCHANGED <<redisAvailable, auxVars, storeVars, attemptsMade, otherActive, stalledCount,
                   closed, template,
                   cancelVars, histVars>>

LeaveAddToQueue(i, how) ==
    /\ spc' = [spc EXCEPT ![i] = how]
    /\ pc' = [pc EXCEPT ![i] = "idle"]
    /\ xlink' = [xlink EXCEPT ![i] = Undefined]
    /\ outcome' = [outcome EXCEPT ![i] = "none"]
    /\ UNCHANGED <<xid, currentStatus, ocrResult, directRuns>>

\* the in-process run has ended: a throw inside the try block lands in the
\* catch block, which runs the pipeline once more; a throw inside the catch
\* block leaves addToQueue
AddToQueueResume(i) ==
    /\ spc[i] \in {"direct", "directInCatch"}
    /\ pc[i] = "done"
    /\ IF outcome[i] = "threw"
       THEN IF spc[i] = "direct"
            THEN StartDirect(i, "directInCatch")
            ELSE LeaveAddToQueue(i, "threw")
       ELSE LeaveAddToQueue(i, "returned")
    /\ UNCHANGED <<redisAvailable, auxVars, storeVars, queueVars, route, template,
                   cancelVars, histVars>>

\* ------------------------------------------------- processFileDirectly
ReportFailure(i) ==
    /\ failReported' = [failReported EXCEPT ![i] = TRUE]
    /\ UNCHANGED <<okReported, okLink>>

ReportSuccess(i, l) ==
    /\ okReported' = [okReported EXCEPT ![i] = TRUE]
    /\ okLink' = [okLink EXCEPT ![i] = l]
    /\ UNCHANGED failReported

Finish(s, how) ==
    /\ pc' = [pc EXCEPT ![s] = "done"]
    /\ outcome' = [outcome EXCEPT ![s] = how]

Goto(s, where) ==
    /\ pc' = [pc EXCEPT ![s] = where]
    /\ UNCHANGED outcome

\* statuses for which the first select lets the execution go on
ProceedsUnlessFinal(st) == st \notin {Absent, "cancelled", "completed"}

ProceedsAfterSelect(st) == st \notin {Absent, "cancelled", "completed", "processing"}

\* select status: a missing row is statusError; cancelled, completed and
\* processing return at once
ReadStatus(s) ==
    /\ pc[s] = "readStatus"
    /\ IF ProceedsAfterSelect(status[xid[s]])
       THEN /\ Goto(s, "updateProcessing")
            /\ currentStatus' = [currentStatus EXCEPT ![s] = status[xid[s]]]
       ELSE /\ Finish(s, "returned")
            /\ UNCHANGED currentStatus
    /\ UNCHANGED <<redisAvailable, auxVars, storeVars, queueVars, submitVars, xid, xlink, ocrResult,
                   cancelVars, histVars>>

\* update({status:'processing'}).eq('id', id).eq('status', 'pending')
ResetToPending(st) == IF st = "pending" THEN "processing" ELSE IF st = "error" THEN "pending" ELSE st

SetProcessingAlsoFromError(st) == IF st \in {"pending", "error"} THEN "processing" ELSE st

SetProcessing(st) == IF st = "pending" THEN "processing" ELSE st

UpdateProcessing(s) ==
    /\ pc[s] = "updateProcessing"
    /\ status' = [status EXCEPT ![xid[s]] = SetProcessing(@)]
    /\ Goto(s, "verify")
    /\ UNCHANGED <<redisAvailable, auxVars, link, queueVars, submitVars, xid, currentStatus, xlink,
                   ocrResult,
                   cancelVars, histVars>>

\* the check made on the status read back after the update
GuardPassedAlsoOnError(st) == st \in {"processing", "error"}

GuardPassed(st) == st = "processing"

\* select status again; anything but processing returns.  Past the guard the
\* payload is normalised before the next await.
VerifyProcessing(s) ==
    /\ pc[s] = "verify"
    /\ IF ~GuardPassed(status[xid[s]])
       THEN /\ Finish(s, "returned")
            /\ UNCHANGED <<passed, reportVars>>
       ELSE /\ passed' = [passed EXCEPT ![xid[s]] = @ + 1]
            /\ IF DecodePayload(PayloadOf(s, payload[xid[s]])).ok
               THEN /\ Goto(s, "ocr")
                    /\ UNCHANGED reportVars
               ELSE /\ Goto(s, "writeError")
                    /\ UNCHANGED reportVars
    /\ currentStatus' = [currentStatus EXCEPT ![s] = Undefined]
    /\ UNCHANGED <<redisAvailable, auxVars, storeVars, queueVars, submitVars, xid, xlink, ocrResult,
                   cancelVars, ocrCalls, n8nCalls, ocrFailed, emptyRefused, ocrAttempts>>

\* ocrService.processFileByTemplate: any answer of the OCR service, which
\* the execution holds as ocrResult until its next step
ExtractText(s) ==
    /\ pc[s] = "ocr"
    /\ ocrCalls' = [ocrCalls EXCEPT ![xid[s]] = @ + 1]
    /\ ocrAttempts' = [ocrAttempts EXCEPT ![xid[s]] = IF s = WorkerSlot THEN @ + 1 ELSE @]
    /\ \E r \in OcrResults :
         /\ ocrResult' = [ocrResult EXCEPT ![s] = r]
         /\ IF OcrAccepted(r)
            THEN /\ Goto(s, "dispatch")
                 /\ UNCHANGED <<reportVars, ocrFailed, emptyRefused>>
            ELSE /\ Goto(s, "writeError")
                 /\ ReportFailure(xid[s])
                 /\ ocrFailed' = [ocrFailed EXCEPT ![xid[s]] = TRUE]
                 /\ emptyRefused' = [emptyRefused EXCEPT ![xid[s]] = @ \/ r.success]
    /\ UNCHANGED <<redisAvailable, auxVars, storeVars, queueVars, submitVars, xid, currentStatus, xlink,
                   cancelVars, passed, n8nCalls>>

\* templateWebhookService.processOcrDataByTemplate: no URL for the template
\* fails without a POST; otherwise the POST fails or answers 2xx
Dispatch(s) ==
    /\ pc[s] = "dispatch"
    /\ \E http \in HttpOutcomes :
         LET n8nResult == ProcessOcrDataByTemplate(WebhookUrl(template[xid[s]]), http) IN
           /\ n8nCalls' = [n8nCalls EXCEPT ![xid[s]] = IF n8nResult.posted THEN @ + 1 ELSE @]
           /\ ocrResult' = [ocrResult EXCEPT ![s] = NoOcrResult]
           /\ IF n8nResult.success
              THEN /\ xlink' = [xlink EXCEPT ![s] = n8nResult.link]
                   /\ ReportSuccess(xid[s], n8nResult.link)
                   /\ Goto(s, "writeCompleted")
              ELSE /\ UNCHANGED xlink
                   /\ ReportFailure(xid[s])
                   /\ Goto(s, "writeError")
    /\ UNCHANGED <<redisAvailable, auxVars, storeVars, queueVars, submitVars, xid,
                   currentStatus,
                   cancelVars, passed, ocrCalls, ocrFailed, emptyRefused, ocrAttempts>>

\* update({status:'completed', link}).eq('id', id): an undefined link is not
\* part of the request body, so the stored link stays as it is
WriteCompleted(s) ==
    /\ pc[s] = "writeCompleted"
    /\ status' = [status EXCEPT ![xid[s]] = IF @ = Absent THEN @ ELSE "completed"]
    /\ link' = [link EXCEPT ![xid[s]] = IF xlink[s] = Undefined THEN @ ELSE xlink[s]]
    /\ xlink' = [xlink EXCEPT ![s] = Undefined]
    /\ Finish(s, "success")
    /\ UNCHANGED <<redisAvailable, auxVars, queueVars, submitVars, xid, currentStatus, ocrResult,
                   cancelVars, histVars>>

\* the outer catch: update({status:'error'}).eq('id', id), then rethrow
WriteErrorAndSwallow(s) ==
    /\ pc[s] = "writeError"
    /\ status' = [status EXCEPT ![xid[s]] = IF @ = Absent THEN @ ELSE "error"]
    /\ ocrResult' = [ocrResult EXCEPT ![s] = NoOcrResult]
    /\ Finish(s, "returned")
    /\ UNCHANGED <<redisAvailable, auxVars, link, queueVars, submitVars, xid, currentStatus, xlink,
                   cancelVars, histVars>>

WriteError(s) ==
    /\ pc[s] = "writeError"
    /\ status' = [status EXCEPT ![xid[s]] = IF @ = Absent THEN @ ELSE "error"]
    /\ ocrResult' = [ocrResult EXCEPT ![s] = NoOcrResult]
    /\ Finish(s, "threw")
    /\ UNCHANGED <<redisAvailable, auxVars, link, queueVars, submitVars, xid, currentStatus, xlink,
                   cancelVars, histVars>>

\* ------------------------------------------------------ queue and worker
\* the worker takes the next waiting job; concurrency 1
WorkerClaim(i) ==
    /\ redisAvailable
    /\ ~closed
    /\ pc[WorkerSlot] = "idle"
    /\ job[i] = "waiting"
    /\ \A j \in Ids : job[j] # "active"
    /\ ~otherActive
    /\ job' = [job EXCEPT ![i] = "active"]
    /\ pc' = [pc EXCEPT ![WorkerSlot] = "readStatus"]
    /\ xid' = [xid EXCEPT ![WorkerSlot] = i]
    /\ xlink' = [xlink EXCEPT ![WorkerSlot] = Undefined]
    /\ ocrResult' = [ocrResult EXCEPT ![WorkerSlot] = NoOcrResult]
    /\ currentStatus' = [currentStatus EXCEPT ![WorkerSlot] = Undefined]
    /\ outcome' = [outcome EXCEPT ![WorkerSlot] = "none"]
    /\ UNCHANGED <<redisAvailable, auxVars, storeVars, attemptsMade, otherActive, stalledCount,
                   closed, submitVars, cancelVars, histVars>>

\* the worker takes, and later settles, the job of another upload
OtherJobClaimWhileBusy ==
    /\ redisAvailable
    /\ ~closed
    /\ ~otherActive
    /\ otherActive' = TRUE
    /\ UNCHANGED <<redisAvailable, auxVars, storeVars, job, attemptsMade, stalledCount, closed, submitVars,
                   execVars, cancelVars, histVars>>

OtherJobClaim ==
    /\ redisAvailable
    /\ ~closed
    /\ pc[WorkerSlot] = "idle"
    /\ ~otherActive
    /\ otherActive' = TRUE
    /\ UNCHANGED <<redisAvailable, auxVars, storeVars, job, attemptsMade, stalledCount, closed, submitVars,
                   execVars, cancelVars, histVars>>

OtherJobSettle ==
    /\ otherActive
    /\ otherActive' = FALSE
    /\ UNCHANGED <<redisAvailable, auxVars, storeVars, job, attemptsMade, stalledCount, closed, submitVars,
                   execVars, cancelVars, histVars>>

\* the processor's promise settled: resolved moves the job to completed,
\* rejected counts an attempt and retries with backoff until Attempts
WorkerSettle ==
    /\ pc[WorkerSlot] = "done"
    /\ LET i == xid[WorkerSlot] IN
         IF outcome[WorkerSlot] = "threw"
         THEN /\ attemptsMade' = [attemptsMade EXCEPT ![i] = @ + 1]
              /\ job' = [job EXCEPT ![i] =
                           IF attemptsMade[i] + 1 < Attempts THEN "delayed" ELSE "failed"]
         ELSE /\ job' = [job EXCEPT ![i] = "completed"]
              /\ UNCHANGED attemptsMade
    /\ pc' = [pc EXCEPT ![WorkerSlot] = "idle"]
    /\ xid' = [xid EXCEPT ![WorkerSlot] = WorkerSlot]
    /\ xlink' = [xlink EXCEPT ![WorkerSlot] = Undefined]
    /\ ocrResult' = [ocrResult EXCEPT ![WorkerSlot] = NoOcrResult]
    /\ currentStatus' = [currentStatus EXCEPT ![WorkerSlot] = Undefined]
    /\ outcome' = [outcome EXCEPT ![WorkerSlot] = "none"]
    /\ UNCHANGED <<redisAvailable, auxVars, storeVars, otherActive, stalledCount, closed, submitVars,
                   cancelVars, histVars>>

\* the backoff delay of a failed attempt has elapsed
BackoffElapsed(i) ==
    /\ job[i] = "delayed"
    /\ job' = [job EXCEPT ![i] = "waiting"]
    /\ UNCHANGED <<redisAvailable, auxVars, storeVars, attemptsMade, otherActive, stalledCount, closed,
                   submitVars, execVars,
                   cancelVars, histVars>>

\* the worker's processor holds the job of upload i
Held(i) == pc[WorkerSlot] # "idle" /\ xid[WorkerSlot] = i

\* the job is in the active list but no live processor holds it
Lost(i) == job[i] = "active" /\ ~Held(i)

\* the Node process dies while the worker's processor runs a job and is
\* started again: the execution is gone, its job stays in the active list.
\* Taken when no request handler is under way in the process.
ProcessCrash ==
    /\ pc[WorkerSlot] # "idle"
    /\ \A i \in Ids : spc[i] \in {"none", "returned", "threw"}
    /\ \A i \in Ids : cpc[i] \in {"idle", "done"}
    /\ pc' = [pc EXCEPT ![WorkerSlot] = "idle"]
    /\ xid' = [xid EXCEPT ![WorkerSlot] = WorkerSlot]
    /\ xlink' = [xlink EXCEPT ![WorkerSlot] = Undefined]
    /\ ocrResult' = [ocrResult EXCEPT ![WorkerSlot] = NoOcrResult]
    /\ currentStatus' = [currentStatus EXCEPT ![WorkerSlot] = Undefined]
    /\ outcome' = [outcome EXCEPT ![WorkerSlot] = "none"]
    /\ UNCHANGED <<redisAvailable, auxVars, storeVars, queueVars, submitVars,
                   cancelVars, histVars>>

MoveStalledAlwaysToWait(i) ==
    /\ stalledCount' = [stalledCount EXCEPT ![i] = @ + 1]
    /\ job' = [job EXCEPT ![i] = "waiting"]

\* the queue's handling of a stalled job under maxStalledCount: back to
\* waiting, or failed once it stalled more often than the limit
MoveStalled(i) ==
    /\ stalledCount' = [stalledCount EXCEPT ![i] = @ + 1]
    /\ job' = [job EXCEPT ![i] =
                 IF stalledCount[i] + 1 > MaxStalledCount THEN "failed" ELSE "waiting"]

\* the worker's stalled check, every stalledInterval, finds the lost job
StalledCheck(i) ==
    /\ redisAvailable
    /\ ~closed
    /\ Lost(i)
    /\ MoveStalled(i)
    /\ UNCHANGED <<redisAvailable, auxVars, storeVars, attemptsMade, otherActive, closed,
                   submitVars, execVars, cancelVars, histVars>>

\* uploadQueue.drain(), called without argument (delayed = false): what it
\* makes of a job in state j
Drain(j) == IF j = "waiting" THEN "none" ELSE j

\* clearQueue: uploadQueue.drain() removes the waiting jobs
ClearQueue(i) ==
    /\ redisAvailable
    /\ ~closed
    /\ job[i] = "waiting"
    /\ job' = [job EXCEPT ![i] = Drain(@)]
    /\ UNCHANGED <<redisAvailable, auxVars, storeVars, attemptsMade, otherActive, stalledCount,
                   closed, submitVars, execVars, cancelVars, histVars>>

\* close: uploadWorker.close() waits for the job being processed, then
\* uploadQueue.close()
Close ==
    /\ redisAvailable
    /\ ~closed
    /\ pc[WorkerSlot] = "idle"
    /\ ~otherActive
    /\ closed' = TRUE
    /\ UNCHANGED <<redisAvailable, auxVars, storeVars, job, attemptsMade, otherActive,
                   stalledCount, submitVars, execVars, cancelVars, histVars>>

\* DELETE /api/uploads: the row of the upload is deleted
DeleteUpload(i) ==
    /\ status[i] # Absent
    /\ status' = [status EXCEPT ![i] = Absent]
    /\ link' = [link EXCEPT ![i] = NoLink]
    /\ UNCHANGED <<redisAvailable, auxVars, queueVars, submitVars, execVars,
                   cancelVars, histVars>>

\* ------------------------------------------------------ cancelFromQueue
CancelReturn(i, value) ==
    /\ cpc' = [cpc EXCEPT ![i] = "done"]
    /\ cResult' = [cResult EXCEPT ![i] = value]

CancelGoto(i, where) ==
    /\ cpc' = [cpc EXCEPT ![i] = where]
    /\ UNCHANGED cResult

\* update({status:'cancelled'}).eq('id', uploadId).eq('status', 'pending')
SetCancelledUnguarded(st) == IF st # Absent THEN "cancelled" ELSE st

SetCancelledNever(st) == st

SetCancelled(st) == IF st = "pending" THEN "cancelled" ELSE st

\* PUT /api/uploads found the row and calls cancelFromQueue(i)
CancelStart(i) ==
    /\ cpc[i] \in {"idle", "done"}
    /\ spc[i] \notin {"none", "insertFailed"}
    /\ cancelCalls < MaxCancels
    /\ cancelCalls' = cancelCalls + 1
    /\ cpc' = [cpc EXCEPT ![i] = "select"]
    /\ cResult' = [cResult EXCEPT ![i] = Undefined]
    /\ cSeen' = [cSeen EXCEPT ![i] = Undefined]
    /\ UNCHANGED cWaiting
    /\ UNCHANGED <<redisAvailable, auxVars, storeVars, queueVars, submitVars, execVars,
                   histVars>>

\* statuses the first select of cancelFromQueue refuses
RefusedOnlyWhenFinal(st) == st \in {Absent, "completed", "error", "cancelled"}

RefusedUnlessMissing(st) == st \in {"completed", "error", "cancelled", "processing"}

RefusedBySelect(st) == st \in {Absent, "completed", "error", "cancelled", "processing"}

\* select status, nome_arquivo: no row, a final status or processing return
\* false; without Redis go on to the bare status update
CancelSelect(i) ==
    /\ cpc[i] = "select"
    /\ cSeen' = [cSeen EXCEPT ![i] = status[i]]
    /\ IF RefusedBySelect(status[i])
       THEN CancelReturn(i, FALSE)
       ELSE IF ~redisAvailable
            THEN CancelGoto(i, "updateNoRedis")
            ELSE CancelGoto(i, "getWaiting")
    /\ UNCHANGED <<redisAvailable, auxVars, storeVars, queueVars, submitVars, execVars,
                   cWaiting, cancelCalls, histVars>>

\* the guarded update of one of the three branches; its result carries no
\* error when no row matched, so the call returns true
CancelUpdate(i) ==
    /\ cpc[i] \in {"updateNoRedis", "updateRemoved", "updateNotFound"}
    /\ status' = [status EXCEPT ![i] = SetCancelled(@)]
    /\ CancelReturn(i, TRUE)
    /\ UNCHANGED <<redisAvailable, auxVars, link, queueVars, submitVars, execVars,
                   cWaiting, cSeen, cancelCalls, histVars>>

\* the guarded update of one of the three branches came back with an error
\* (the store did not apply it): the call returns false
CancelUpdateError(i) ==
    /\ cpc[i] \in {"updateNoRedis", "updateRemoved", "updateNotFound"}
    /\ CancelReturn(i, FALSE)
    /\ UNCHANGED <<redisAvailable, auxVars, storeVars, queueVars, submitVars, execVars,
                   cWaiting, cSeen, cancelCalls, histVars>>

\* getJobs(['waiting', 'delayed'])
CancelGetWaiting(i) ==
    /\ cpc[i] = "getWaiting"
    /\ IF closed
       THEN /\ CancelReturn(i, FALSE)
            /\ UNCHANGED cWaiting
       ELSE /\ cWaiting' = [cWaiting EXCEPT ![i] = job[i] \in {"waiting", "delayed"}]
            /\ CancelGoto(i, "getActive")
    /\ UNCHANGED <<redisAvailable, auxVars, storeVars, queueVars, submitVars, execVars,
                   cSeen, cancelCalls, histVars>>

\* getJobs(['active']), then the search for the target job
CancelGetActive(i) ==
    /\ cpc[i] = "getActive"
    /\ cWaiting' = [cWaiting EXCEPT ![i] = FALSE]
    /\ IF closed
       THEN CancelReturn(i, FALSE)
       ELSE IF cWaiting[i]
            THEN CancelGoto(i, "remove")
            ELSE IF job[i] = "active"
                 THEN CancelReturn(i, FALSE)
                 ELSE CancelGoto(i, "finalSelect")
    /\ UNCHANGED <<redisAvailable, auxVars, storeVars, queueVars, submitVars, execVars,
                   cSeen, cancelCalls, histVars>>

\* targetJob.remove(): a job the worker holds is locked and remove() throws,
\* which the outer catch turns into false, as it does the throw of a closed
\* queue; the lock of a lost job may or may not have expired
CancelRemove(i) ==
    /\ cpc[i] = "remove"
    /\ IF closed \/ Held(i)
       THEN /\ CancelReturn(i, FALSE)
            /\ UNCHANGED job
       ELSE IF Lost(i)
            THEN \/ /\ CancelReturn(i, FALSE)
                    /\ UNCHANGED job
                 \/ /\ job' = [job EXCEPT ![i] = "none"]
                    /\ CancelGoto(i, "updateRemoved")
            ELSE /\ job' = [job EXCEPT ![i] = "none"]
                 /\ CancelGoto(i, "updateRemoved")
    /\ UNCHANGED <<redisAvailable, auxVars, storeVars, attemptsMade, otherActive, stalledCount, closed,
                   submitVars, execVars, cWaiting, cSeen, cancelCalls, histVars>>

\* the job is in neither snapshot: select status once more
CancelFinalSelect(i) ==
    /\ cpc[i] = "finalSelect"
    /\ IF status[i] = "pending"
       THEN CancelGoto(i, "updateNotFound")
       ELSE CancelReturn(i, FALSE)
    /\ UNCHANGED <<redisAvailable, auxVars, storeVars, queueVars, submitVars, execVars,
                   cWaiting, cSeen, cancelCalls, histVars>>

\* ------------------------------ getQueueStats, getQueueStatus, clearQueue
\* the jobs of the queue in a state, as the queue's getters count them
CountOf(state) ==
    Cardinality({i \in Ids : job[i] = state})
      + (IF state = "active" /\ otherActive THEN 1 ELSE 0)

\* the result without Redis and the result of the catch block
EmptyStats == [waiting |-> 0, active |-> 0, completed |-> 0, failed |-> 0,
               total |-> 0, isProcessing |-> FALSE, error |-> TRUE]

StatsResultOfQueued(w, a, c, f) ==
    [waiting |-> w, active |-> a, completed |-> c, failed |-> f,
     total |-> w + a, isProcessing |-> w + a > 0, error |-> FALSE]

\* the result built from the four lists read
StatsResult(w, a, c, f) ==
    [waiting |-> w, active |-> a, completed |-> c, failed |-> f,
     total |-> w + a + c + f, isProcessing |-> a > 0, error |-> FALSE]

EmptyStatus == [queueLength |-> 0, isProcessing |-> FALSE]

StatusResult(waitingJobs, activeJobs) ==
    [queueLength |-> waitingJobs, isProcessing |-> activeJobs > 0]

\* the call has ended by returning res
Returned(op, res) ==
    [op |-> op, at |-> "done", readFailed |-> FALSE, threw |-> FALSE, res |-> res]

ReadErrorRethrown(op, empty) ==
    [op |-> op, at |-> "done", readFailed |-> TRUE, threw |-> TRUE, res |-> empty]

\* a read of the queue rejected inside the try block: the catch block
\* returns the empty result
ReadErrorCaught(op, empty) ==
    [op |-> op, at |-> "done", readFailed |-> TRUE, threw |-> FALSE, res |-> empty]

\* a command sent to Redis resolves or rejects; on a closed queue it rejects
Resolves(ok) == closed => ~ok

\* getQueueStats up to its first await
GetQueueStatsStart ==
    /\ call.at = "done"
    /\ call' = IF ~redisAvailable
               THEN Returned("getQueueStats", EmptyStats)
               ELSE [op |-> "getQueueStats", at |-> "getWaiting", counts |-> <<>>]
    /\ UNCHANGED <<uploadVars, payload, fn>>

StatsReads == <<"getWaiting", "getActive", "getCompleted", "getFailed">>
StatsStates == <<"waiting", "active", "completed", "failed">>

\* one of await getWaiting(), getActive(), getCompleted(), getFailed(); after
\* the last the result is built
GetQueueStatsRead ==
    /\ call.op = "getQueueStats"
    /\ call.at # "done"
    /\ \E ok \in BOOLEAN :
         /\ Resolves(ok)
         /\ call' =
              IF ~ok
              THEN ReadErrorCaught("getQueueStats", EmptyStats)
              ELSE LET k == Len(call.counts) + 1
                       counts == Append(call.counts, CountOf(StatsStates[k]))
                   IN IF k = Len(StatsReads)
                      THEN Returned("getQueueStats",
                                    StatsResult(counts[1], counts[2], counts[3], counts[4]))
                      ELSE [op |-> "getQueueStats", at |-> StatsReads[k + 1],
                            counts |-> counts]
    /\ UNCHANGED <<uploadVars, payload, fn>>

\* getQueueStatus up to its first await
GetQueueStatusStart ==
    /\ call.at = "done"
    /\ call' = IF ~redisAvailable
               THEN Returned("getQueueStatus", EmptyStatus)
               ELSE [op |-> "getQueueStatus", at |-> "getJobsWaiting", counts |-> <<>>]
    /\ UNCHANGED <<uploadVars, payload, fn>>

\* await getJobs(['waiting', 'delayed']), then await getJobs(['active'])
GetQueueStatusRead ==
    /\ call.op = "getQueueStatus"
    /\ call.at # "done"
    /\ \E ok \in BOOLEAN :
         /\ Resolves(ok)
         /\ call' =
              IF ~ok
              THEN ReadErrorCaught("getQueueStatus", EmptyStatus)
              ELSE IF call.at = "getJobsWaiting"
                   THEN [op |-> "getQueueStatus", at |-> "getJobsActive",
                         counts |-> <<CountOf("waiting") + CountOf("delayed")>>]
                   ELSE Returned("getQueueStatus",
                                 StatusResult(call.counts[1], CountOf("active")))
    /\ UNCHANGED <<uploadVars, payload, fn>>

\* clearQueue up to its await: without Redis it returns at once
ClearQueueStart ==
    /\ call.at = "done"
    /\ call' = IF ~redisAvailable
               THEN Returned("clearQueue", "void")
               ELSE [op |-> "clearQueue", at |-> "drain"]
    /\ UNCHANGED <<uploadVars, payload, fn>>

\* await uploadQueue.drain(): one script in Redis; a rejection is not caught
ClearQueueDrain ==
    /\ call.op = "clearQueue"
    /\ call.at = "drain"
    /\ \E ok \in BOOLEAN :
         /\ Resolves(ok)
         /\ IF ok
            THEN /\ job' = [i \in Ids |-> Drain(job[i])]
                 /\ call' = Returned("clearQueue", "void")
            ELSE /\ UNCHANGED job
                 /\ call' = [op |-> "clearQueue", at |-> "done", readFailed |-> TRUE,
                             threw |-> TRUE, res |-> "void"]
    /\ UNCHANGED <<redisAvailable, payload, fn, storeVars, attemptsMade, otherActive,
                   stalledCount, closed, submitVars, execVars, cancelVars, histVars>>

\* ------------------------------------- the services' functions, applied
\* isWebhookConfigured(t) and getConfiguredTemplates() under an environment
ApplyConfigured ==
    /\ fn.name = "none"
    /\ \E env \in Envs, t \in MappedTemplates :
         fn' = [name |-> "isWebhookConfigured", url |-> UrlOf(env, t), template |-> t,
                res |-> IsWebhookConfigured(env, t),
                list |-> GetConfiguredTemplates(env)]
    /\ UNCHANGED <<uploadVars, payload, call>>

\* processOcrDataByTemplate under an environment and an outcome of the POST
ApplyProcessOcrData ==
    /\ fn.name = "none"
    /\ \E env \in Envs, t \in MappedTemplates, http \in HttpOutcomes :
         fn' = [name |-> "processOcrDataByTemplate", url |-> UrlOf(env, t),
                res |-> ProcessOcrDataByTemplate(UrlOf(env, t), http)]
    /\ UNCHANGED <<uploadVars, payload, call>>

\* extractTextFromPdf on a 2xx answer of the OCR API
ApplyExtractText ==
    /\ fn.name = "none"
    /\ \E response \in OcrResponses :
         fn' = [name |-> "extractTextFromPdf", response |-> response,
                res |-> ExtractedText(response)]
    /\ UNCHANGED <<uploadVars, payload, call>>

NextFn == ApplyConfigured \/ ApplyProcessOcrData \/ ApplyExtractText

SpecFn == Init /\ [][NextFn]_vars

\* ------------------------------------------------------------ the system
Next ==
    \/ \E i \in Ids : InsertUpload(i)
    \/ \E i \in Ids : AddToQueue(i)
    \/ \E i \in Ids : AddToQueueResume(i)
    \/ \E s \in Slots : ReadStatus(s)
    \/ \E s \in Slots : UpdateProcessing(s)
    \/ \E s \in Slots : VerifyProcessing(s)
    \/ \E s \in Slots : ExtractText(s)
    \/ \E s \in Slots : Dispatch(s)
    \/ \E s \in Slots : WriteCompleted(s)
    \/ \E s \in Slots : WriteError(s)
    \/ \E i \in Ids : WorkerClaim(i)
    \/ WorkerSettle
    \/ OtherJobClaim
    \/ OtherJobSettle
    \/ \E i \in Ids : BackoffElapsed(i)
    \/ ProcessCrash
    \/ \E i \in Ids : StalledCheck(i)
    \/ \E i \in Ids : ClearQueue(i)
    \/ Close
    \/ \E i \in Ids : DeleteUpload(i)
    \/ \E i \in Ids : CancelStart(i)
    \/ \E i \in Ids : CancelSelect(i)
    \/ \E i \in Ids : CancelUpdate(i)
    \/ \E i \in Ids : CancelUpdateError(i)
    \/ \E i \in Ids : CancelGetWaiting(i)
    \/ \E i \in Ids : CancelGetActive(i)
    \/ \E i \in Ids : CancelRemove(i)
    \/ \E i \in Ids : CancelFinalSelect(i)

Spec == Init /\ [][Next]_vars

\* addToQueue called with any payload: the submission, the executions and
\* the queue with its worker
InitPayload ==
    /\ InitUpload
    /\ payload \in [Ids -> Payloads]

NextPayload ==
    \/ \E i \in Ids : InsertUpload(i)
    \/ \E i \in Ids : AddToQueue(i)
    \/ \E i \in Ids : AddToQueueResume(i)
    \/ \E s \in Slots : ReadStatus(s)
    \/ \E s \in Slots : UpdateProcessing(s)
    \/ \E s \in Slots : VerifyProcessing(s)
    \/ \E s \in Slots : ExtractText(s)
    \/ \E s \in Slots : Dispatch(s)
    \/ \E s \in Slots : WriteCompleted(s)
    \/ \E s \in Slots : WriteError(s)
    \/ \E i \in Ids : WorkerClaim(i)
    \/ WorkerSettle
    \/ OtherJobClaim
    \/ OtherJobSettle
    \/ \E i \in Ids : BackoffElapsed(i)
    \/ ProcessCrash
    \/ \E i \in Ids : StalledCheck(i)

SpecPayload == InitPayload /\ [][NextPayload]_vars

\* the queue's diagnostics and its drain, called while an upload is
\* submitted, executed and retried
NextFacade ==
    \/ \E i \in Ids : InsertUpload(i)
    \/ \E i \in Ids : AddToQueue(i)
    \/ \E i \in Ids : AddToQueueResume(i)
    \/ \E s \in Slots : ReadStatus(s)
    \/ \E s \in Slots : UpdateProcessing(s)
    \/ \E s \in Slots : VerifyProcessing(s)
    \/ \E s \in Slots : ExtractText(s)
    \/ \E s \in Slots : Dispatch(s)
    \/ \E s \in Slots : WriteCompleted(s)
    \/ \E s \in Slots : WriteError(s)
    \/ \E i \in Ids : WorkerClaim(i)
    \/ WorkerSettle
    \/ OtherJobClaim
    \/ OtherJobSettle
    \/ \E i \in Ids : BackoffElapsed(i)
    \/ Close
    \/ GetQueueStatsStart
    \/ GetQueueStatsRead
    \/ GetQueueStatusStart
    \/ GetQueueStatusRead
    \/ ClearQueueStart
    \/ ClearQueueDrain

SpecFacade == Init /\ [][NextFacade]_vars

\* the uploads under the worker's and the handlers' scheduling: the store's
\* updates succeed, the process does not crash, the queue is neither drained
\* nor closed, no row is deleted
NextLive ==
    \/ \E i \in Ids : InsertUpload(i)
    \/ \E i \in Ids : AddToQueue(i)
    \/ \E i \in Ids : AddToQueueResume(i)
    \/ \E s \in Slots : ReadStatus(s)
    \/ \E s \in Slots : UpdateProcessing(s)
    \/ \E s \in Slots : VerifyProcessing(s)
    \/ \E s \in Slots : ExtractText(s)
    \/ \E s \in Slots : Dispatch(s)
    \/ \E s \in Slots : WriteCompleted(s)
    \/ \E s \in Slots : WriteError(s)
    \/ \E i \in Ids : WorkerClaim(i)
    \/ WorkerSettle
    \/ OtherJobClaim
    \/ OtherJobSettle
    \/ \E i \in Ids : BackoffElapsed(i)
    \/ \E i \in Ids : CancelStart(i)
    \/ \E i \in Ids : CancelSelect(i)
    \/ \E i \in Ids : CancelUpdate(i)
    \/ \E i \in Ids : CancelGetWaiting(i)
    \/ \E i \in Ids : CancelGetActive(i)
    \/ \E i \in Ids : CancelRemove(i)
    \/ \E i \in Ids : CancelFinalSelect(i)

\* the next step of the execution in slot s: every await of
\* processFileDirectly returns (the calls to the OCR service and to the
\* webhook carry timeouts)
ExecutionStep(s) ==
    \/ ReadStatus(s) \/ UpdateProcessing(s) \/ VerifyProcessing(s)
    \/ ExtractText(s) \/ Dispatch(s) \/ WriteCompleted(s) \/ WriteError(s)

\* the next step of addToQueue for upload i
SubmitStep(i) == AddToQueue(i) \/ AddToQueueResume(i)

\* the next step of a cancel call under way for upload i
CancelStep(i) ==
    \/ CancelSelect(i) \/ CancelUpdate(i) \/ CancelGetWaiting(i)
    \/ CancelGetActive(i) \/ CancelRemove(i) \/ CancelFinalSelect(i)

\* request handlers and executions run on; the worker settles the job it
\* holds, the backoff timer of a delayed job fires, and the queue being
\* first-in first-out, a waiting job is claimed although the worker is
\* busy with other jobs again and again
Fairness ==
    /\ \A s \in Slots : WF_pc(ExecutionStep(s))
    /\ \A i \in Ids : WF_spc(SubmitStep(i))
    /\ \A i \in Ids : WF_cpc(CancelStep(i))
    /\ \A i \in Ids : WF_job(BackoffElapsed(i))
    /\ \A i \in Ids : SF_job(WorkerClaim(i))
    /\ WF_job(WorkerSettle)
    /\ WF_otherActive(OtherJobSettle)

SpecLive == Init /\ [][NextLive]_vars /\ Fairness

TypeOK ==
    /\ redisAvailable \in BOOLEAN
    /\ status \in [Ids -> StatusValues \cup {Absent}]
    /\ \A i \in Ids : job[i] \in {"none", "waiting", "delayed", "active", "completed", "failed"}
    /\ \A i \in Ids : attemptsMade[i] \in 0..Attempts
    /\ \A i \in Ids : passed[i] \in 0..(MaxStalledCount + 2)
    /\ \A i \in Ids : stalledCount[i] \in 0..(MaxStalledCount + 1)
    /\ closed \in BOOLEAN

\* ------------------------------------------------------------ properties
\* nothing is left to happen to upload i: addToQueue has ended, no execution
\* is under way, the queue will not deliver its job again, no cancel call is
\* under way
Settled(i) ==
    /\ spc[i] \in {"returned", "threw"}
    /\ \A s \in Slots : xid[s] = i => pc[s] = "idle"
    /\ job[i] \in {"none", "completed", "failed"}
    /\ cpc[i] \in {"idle", "done"}

\* a step in which the cancel call of upload i returns
CancelReturns(i) == cpc[i] # "done" /\ cpc'[i] = "done"

LegalTransitions ==
    { <<Absent, "pending">>, <<"pending", "processing">>,
      <<"processing", "completed">>, <<"processing", "error">>,
      <<"pending", "cancelled">> }

\* C1: of the executions of the pipeline for one upload, however they
\* interleave, at most one gets past the pending->processing guard.
C1_OneExecutionPastGuard == \A i \in Ids : passed[i] <= 1

\* C2: every change of a record's status is pending->processing,
\* processing->completed, processing->error or pending->cancelled (after
\* the insert as pending); a completed, error or cancelled record never
\* changes status again.  (The deletion of the row is not a status change.)
C2_OnlyLegalTransitions ==
    [][\A i \in Ids : status'[i] # status[i] /\ status'[i] # Absent
                        => <<status[i], status'[i]>> \in LegalTransitions]_vars

\* C3: a record holds a link if and only if its status is completed.
C3_LinkIffCompleted ==
    \A i \in Ids : status[i] # Absent
                     => ((link[i] # NoLink) <=> (status[i] = "completed"))

\* C4: once nothing is left to happen to an upload, an execution that was
\* past the guard and got success from both the OCR service and the webhook
\* has left the record completed, one that met a failure has left it in
\* error, and the record is not left in processing.  (Record not deleted,
\* worker never lost.)
C4_CompletedIffBothSucceeded ==
    \A i \in Ids : Settled(i) /\ passed[i] > 0
                     /\ status[i] # Absent /\ stalledCount[i] = 0
                     => /\ okReported[i] => status[i] = "completed"
                        /\ failReported[i] => status[i] = "error"
                        /\ status[i] # "processing"

\* the cancel call of upload i returns because the store answered its
\* update with an error
UpdateFailed(i) ==
    cpc[i] \in {"updateNoRedis", "updateRemoved", "updateNotFound"} /\ cResult'[i] = FALSE

\* C5: a cancel call that read status pending returns true with the record
\* cancelled, wherever the upload's job is (the row not being deleted, the
\* store not answering the update with an error).
C5_CancelOfPendingSucceeds ==
    [][\A i \in Ids : CancelReturns(i) /\ cSeen'[i] = "pending" /\ status'[i] # Absent
                          /\ ~UpdateFailed(i)
                        => cResult'[i] = TRUE /\ status'[i] = "cancelled"]_vars

\* C6: a cancel call that reads status processing, completed, error or
\* cancelled returns false right there and changes neither the record's
\* status nor its link (nor the queue).
C6_CancelOfNonPendingRefused ==
    [][\A i \in Ids :
         (cpc[i] = "select" /\ cpc'[i] # "select"
            /\ status[i] \in {"processing", "completed", "error", "cancelled"})
         => /\ cpc'[i] = "done"
            /\ cResult'[i] = FALSE
            /\ status' = status
            /\ link' = link
            /\ job' = job]_vars

C6_Witness ==
    \E i \in Ids : cpc[i] = "done" /\ cSeen[i] = "processing" /\ cResult[i] = FALSE

\* C7: whenever a cancel call returns true, the record's status is cancelled
\* at that moment (the row not being deleted).
C7_TrueMeansCancelled ==
    [][\A i \in Ids : CancelReturns(i) /\ cResult'[i] = TRUE /\ status'[i] # Absent
                        => status'[i] = "cancelled"]_vars

\* C8: a record in processing is never changed to cancelled, and for a
\* cancelled record neither the OCR service nor a template webhook has been,
\* or ever is, called.
C8_NoCancelOnceProcessing ==
    /\ [](\A i \in Ids : status[i] = "cancelled"
                           => ocrCalls[i] = 0 /\ n8nCalls[i] = 0)
    /\ [][\A i \in Ids : status[i] = "processing"
                           => status'[i] # "cancelled"]_vars

C8_Witness ==
    \E i \in Ids : /\ status[i] = "cancelled"
                   /\ spc[i] = "returned"
                   /\ directRuns[i] > 0
                   /\ cpc[i] = "done" /\ cResult[i] = TRUE

\* the end state the answers of the OCR service and of the webhook call for
EndState(i) ==
    IF okReported[i]
    THEN <<"completed", IF okLink[i] = Undefined THEN NoLink ELSE okLink[i]>>
    ELSE <<"error", NoLink>>

\* C9: with no cancel call, an upload handed over through the queue and the
\* worker and one run in process (Redis unavailable, or the add rejected)
\* both get the answers of the OCR service and, if it comes to that, of the
\* webhook, and end with the same record, the one those answers call for.
\* (The row is not deleted, the queued job is not drained away and the
\* worker is never lost.)
C9_SameEndStateOnBothRoutes ==
    \A i \in Ids :
      (/\ Settled(i) /\ cancelCalls = 0
       /\ route[i] \in {"added", "unavailable", "rejected"}
       /\ status[i] # Absent /\ stalledCount[i] = 0
       /\ route[i] = "added" => job[i] # "none")
      => /\ okReported[i] \/ failReported[i]
         /\ <<status[i], link[i]>> = EndState(i)

C9_Witness ==
    \E i \in Ids : /\ Settled(i) /\ cancelCalls = 0
                   /\ route[i] = "added" /\ job[i] = "completed"
                   /\ status[i] = "completed" /\ link[i] = "http://x/1"

\* C10: when addToQueue has returned or thrown, either the add resolved and
\* the job was queued, or the pipeline was run in process at least once.
C10_SubmissionAlwaysAttempted ==
    \A i \in Ids : spc[i] \in {"returned", "threw"}
                     => route[i] = "added" \/ directRuns[i] >= 1

C10_Witness ==
    \E i \in Ids : spc[i] = "threw" /\ route[i] = "rejected" /\ directRuns[i] = 1

\* C11: when the worker dies after an execution committed processing and
\* before it wrote a final status, the stalled-job redelivery brings the
\* record to completed or error: once nothing is left to happen to an upload
\* whose job was redelivered as stalled and run to its end by the worker,
\* its record is not in processing.
C11_CrashedWorkerNeverBlocks ==
    \A i \in Ids : Settled(i) /\ stalledCount[i] > 0 /\ job[i] = "completed"
                     => status[i] # "processing"

\* C12: while the queue still has attempts left for a job whose execution
\* failed (the job waits out its backoff), the record stays in processing;
\* it becomes error only when the attempts are exhausted.
C12_ProcessingWhileRetriesLeft ==
    \A i \in Ids : (route[i] = "added" /\ job[i] = "delayed" /\ status[i] # Absent)
                     => status[i] = "processing"

\* C13: a job with a failed attempt is delivered again, five attempts at
\* most, and unless a later attempt succeeds it ends as failed: the queue
\* records it as completed only for an execution that succeeded.
C13_FailedJobEndsFailed ==
    /\ [](\A i \in Ids : attemptsMade[i] <= Attempts)
    /\ [][\A i \in Ids :
            (/\ job[i] = "active" /\ job'[i] = "completed"
             /\ attemptsMade[i] > 0 /\ status[i] # Absent)
            => outcome[WorkerSlot] = "success"]_vars

C15_NeverBackToPending ==
    [][\A i \in Ids : status[i] # "pending" /\ status[i] # Absent
                        => status'[i] # "pending"]_vars

\* a retry, a stalled redelivery, a drain and a shutdown have all acted on a
\* record that left pending
C15_Witness ==
    \E i \in Ids : /\ status[i] = "error" /\ attemptsMade[i] > 0
                   /\ stalledCount[i] > 0 /\ job[i] = "none" /\ closed

\* C16: for every execution in which the OCR service reports failure, the
\* record ends in error and that execution never calls the webhook: the
\* step in which the OCR answer is refused goes to the error write without
\* a POST, and once nothing is left to happen the record is in error.
C16_OcrFailureEndsInError ==
    /\ [](\A i \in Ids : (Settled(i) /\ ocrFailed[i] /\ status[i] # Absent
                              /\ stalledCount[i] = 0)
                           => status[i] = "error")
    /\ [][\A s \in Slots : (pc[s] = "ocr" /\ pc'[s] = "writeError")
                            => n8nCalls' = n8nCalls /\ xlink' = xlink]_vars

\* C17: an execution whose first select reads cancelled, completed or
\* processing ends right there by returning, not throwing: it writes
\* neither status nor link and calls neither the OCR service nor a webhook.
C17_GuardedStatusesAreNoOps ==
    [][\A s \in Slots :
         (/\ pc[s] = "readStatus" /\ pc'[s] \notin {"readStatus", "idle"}
          /\ status[xid[s]] \in {"cancelled", "completed", "processing"})
         => /\ pc'[s] = "done" /\ outcome'[s] = "returned"
            /\ status' = status /\ link' = link
            /\ ocrCalls' = ocrCalls /\ n8nCalls' = n8nCalls
            /\ failReported' = failReported]_vars

\* the worker's execution returned while another execution holds the record
\* in processing: it read processing at its first select
C17_Witness ==
    \E i \in Ids : /\ pc[WorkerSlot] = "done" /\ xid[WorkerSlot] = i
                   /\ outcome[WorkerSlot] = "returned"
                   /\ status[i] = "processing" /\ pc[i] = "ocr"

\* positions of an execution past the processing guard
PastGuard == {"ocr", "dispatch", "writeCompleted", "writeError"}

\* C18: past the processing guard an execution never goes back to the guard
\* and ends only by a completed write that returns success or, for every
\* failure, by the error write followed by a throw; the queue counts a
\* worker execution that threw as a failed attempt.
C18_FailureWritesErrorThenThrows ==
    /\ [][\A s \in Slots :
            (pc[s] \in PastGuard /\ pc'[s] \notin {pc[s], "idle"})
            => \/ pc'[s] \in PastGuard
               \/ /\ pc[s] = "writeCompleted"
                  /\ pc'[s] = "done" /\ outcome'[s] = "success"
               \/ /\ pc[s] = "writeError"
                  /\ pc'[s] = "done" /\ outcome'[s] = "threw"
                  /\ status'[xid[s]] \in {"error", Absent}]_vars
    /\ [][\A i \in Ids :
            (/\ pc[WorkerSlot] = "done" /\ xid[WorkerSlot] = i
             /\ outcome[WorkerSlot] = "threw" /\ job'[i] # job[i])
            => /\ attemptsMade'[i] = attemptsMade[i] + 1
               /\ job'[i] \in {"delayed", "failed"}]_vars

\* the webhook failed the worker's execution, which left the record in
\* error and was counted as a failed attempt
C18_Witness ==
    \E i \in Ids : /\ route[i] = "added" /\ attemptsMade[i] = 1 /\ job[i] = "delayed"
                   /\ status[i] = "error" /\ n8nCalls[i] = 1 /\ ~ocrFailed[i]

\* C19: when the status select at the start of the worker's execution finds
\* no record, the execution throws, so that the queue counts a failed
\* attempt and not a completed job.
C19_MissingRecordFailsTheJob ==
    [][(/\ pc[WorkerSlot] = "readStatus" /\ pc'[WorkerSlot] = "done"
        /\ status[xid[WorkerSlot]] = Absent)
       => outcome'[WorkerSlot] = "threw"]_vars

\* C20: without Redis a failed submit is not retried: the OCR service and
\* the webhook are each called at most once for the upload, and when
\* addToQueue has ended after a failure of either the record is in error.
C20_FallbackFailureNotRetried ==
    \A i \in Ids :
      ~redisAvailable
      => /\ ocrCalls[i] <= 1 /\ n8nCalls[i] <= 1
         /\ (spc[i] \in {"returned", "threw"} /\ failReported[i] /\ status[i] # Absent)
            => status[i] = "error"

\* the in-process run failed at the webhook, the catch block of addToQueue
\* ran the pipeline once more and addToQueue returned
C20_Witness ==
    \E i \in Ids : /\ ~redisAvailable /\ spc[i] = "returned" /\ directRuns[i] = 2
                   /\ status[i] = "error" /\ ocrCalls[i] = 1 /\ n8nCalls[i] = 1

C24_EmptyTextNeedsSucesso ==
    /\ [](\A s \in Slots : (pc[s] = "dispatch" /\ ocrResult[s].text = "")
                              => ocrResult[s].sucesso)
    /\ [][\A s \in Slots :
            (/\ pc[s] = "ocr" /\ pc'[s] \notin {"ocr", "idle"}
             /\ ocrResult'[s].success
             /\ ocrResult'[s].text = "" /\ ~ocrResult'[s].sucesso)
            => /\ pc'[s] = "writeError"
               /\ n8nCalls' = n8nCalls /\ xlink' = xlink]_vars
    /\ [](\A i \in Ids : (Settled(i) /\ emptyRefused[i] /\ status[i] # Absent
                              /\ stalledCount[i] = 0)
                           => status[i] = "error")

\* the step in which a call of op ends
Ends(op) == call.at # "done" /\ call'.at = "done" /\ call'.op = op

\* C22: getQueueStats and getQueueStatus never throw.  Without Redis, or
\* when a read of the queue fails, getQueueStats returns zero for every
\* count and for the total, isProcessing false and error true, and
\* getQueueStatus returns queueLength 0 and isProcessing false.  No step of
\* either call changes a job, a record or anything else of the pipeline.
C22_DiagnosticsNeverThrow ==
    /\ [](call.op \in {"getQueueStats", "getQueueStatus"} /\ call.at = "done"
            => /\ ~call.threw
               /\ (call.readFailed \/ ~redisAvailable)
                    => call.res = IF call.op = "getQueueStats"
                                  THEN [waiting |-> 0, active |-> 0, completed |-> 0,
                                        failed |-> 0, total |-> 0,
                                        isProcessing |-> FALSE, error |-> TRUE]
                                  ELSE [queueLength |-> 0, isProcessing |-> FALSE])
    /\ [][(call' # call /\ call'.op \in {"getQueueStats", "getQueueStatus"})
            => UNCHANGED <<uploadVars, payload>>]_vars

\* a read of getQueueStats failed while the worker held the upload's job
C22_Witness ==
    /\ call.op = "getQueueStats" /\ call.at = "done" /\ call.readFailed
    /\ \E i \in Ids : job[i] = "active" /\ status[i] = "processing"

\* C27: clearQueue removes every waiting and every delayed job and nothing
\* else: the active job stays, as do the completed and the failed ones, and
\* no record's status or link changes; without Redis it does nothing and
\* returns.
C27_DrainRemovesWaitingAndDelayed ==
    /\ [][(Ends("clearQueue") /\ ~call'.threw /\ redisAvailable)
            => \A i \in Ids :
                 job'[i] = IF job[i] \in {"waiting", "delayed"} THEN "none" ELSE job[i]]_vars
    /\ [][(call' # call /\ call'.op = "clearQueue")
            => UNCHANGED <<storeVars, attemptsMade, otherActive, stalledCount, closed,
                           submitVars, execVars, histVars>>]_vars
    /\ [][(call' # call /\ call'.op = "clearQueue" /\ ~redisAvailable)
            => /\ call' = Returned("clearQueue", "void")
               /\ UNCHANGED job]_vars

\* C23: processOcrDataByTemplate for a template whose URL is empty returns
\* a failure result with an error description and makes no POST.
C23_NoUrlFailsWithoutPost ==
    (fn.name = "processOcrDataByTemplate" /\ fn.url = "")
    => /\ fn.res.success = FALSE
       /\ fn.res.error # Undefined
       /\ fn.res.posted = FALSE

C23_Witness == fn.name = "processOcrDataByTemplate" /\ fn.url = ""

\* a step of execution s from position from to position to
Moves(s, from, to) == pc[s] = from /\ pc'[s] = to

\* the payload normalisation is to accept: a Buffer, or an object whose data
\* is an array
Decodable(q) == q.isBuffer \/ (q.isObject /\ q.hasData /\ q.dataIsArray)

\* C25: the payload normalisation accepts exactly a Buffer or an object
\* carrying a data array.  The {type: 'Buffer', data: [...]} the queue
\* transport makes of a Buffer decodes to the bytes of that Buffer.  For any
\* other payload no execution reaches the OCR call: past the guard it goes
\* to the error write, which sets the record to error and throws, the OCR
\* service is never called for the upload, and once nothing is left to
\* happen (the worker never lost) the record is in error.
C25_PayloadDecodedOrRefused ==
    /\ [](\A i \in Ids :
            /\ payload[i].isBuffer
                 => DecodePayload(ToJSON(payload[i])) = [ok |-> TRUE, bytes |-> payload[i].data]
            /\ ~Decodable(payload[i])
                 => /\ ocrCalls[i] = 0
                    /\ \A s \in Slots : xid[s] = i => pc[s] \notin {"ocr", "dispatch", "writeCompleted"}
                    /\ (Settled(i) /\ passed[i] > 0 /\ status[i] # Absent
                          /\ stalledCount[i] = 0) => status[i] = "error")
    /\ [][\A s \in Slots :
            (pc[s] = "verify" /\ pc'[s] \notin {"verify", "idle"} /\ status[xid[s]] = "processing")
            => pc'[s] = IF Decodable(PayloadOf(s, payload[xid[s]])) THEN "ocr" ELSE "writeError"]_vars

\* {type: 'Buffer'} without data was refused past the guard, the execution
\* threw and the record is in error
C25_Witness ==
    \E i \in Ids : /\ payload[i].type = "Buffer" /\ ~payload[i].hasData
                   /\ passed[i] = 1 /\ Settled(i) /\ status[i] = "error"
                   /\ spc[i] = "threw"

\* C26: the steps of one execution follow the pipeline's order: the guarded
\* processing write, the check of its result, the OCR call, the webhook
\* call, the completed write.  Each position is entered only from the one
\* before it and only when that step succeeded: the OCR call after the
\* status read back was processing, the webhook call after the OCR service
\* succeeded, the completed write after the webhook succeeded; the services
\* are called and completed is written at their positions only.
C26_StepsInPipelineOrder ==
    [][/\ \A s \in Slots :
            /\ (pc'[s] = "verify" /\ pc[s] # "verify")
                 => pc[s] = "updateProcessing"
            /\ (pc'[s] = "ocr" /\ pc[s] # "ocr")
                 => pc[s] = "verify" /\ status[xid[s]] = "processing"
            /\ (pc'[s] = "dispatch" /\ pc[s] # "dispatch")
                 => /\ pc[s] = "ocr" /\ ocrResult'[s].success
                    /\ ocrCalls'[xid[s]] = ocrCalls[xid[s]] + 1
            /\ (pc'[s] = "writeCompleted" /\ pc[s] # "writeCompleted")
                 => /\ pc[s] = "dispatch"
                    /\ n8nCalls'[xid[s]] = n8nCalls[xid[s]] + 1
                    /\ okReported'[xid[s]]
       /\ \A i \in Ids :
            /\ ocrCalls'[i] # ocrCalls[i]
                 => \E s \in Slots : /\ xid[s] = i
                                      /\ \/ Moves(s, "ocr", "dispatch")
                                         \/ Moves(s, "ocr", "writeError")
            /\ n8nCalls'[i] # n8nCalls[i]
                 => \E s \in Slots : /\ xid[s] = i
                                      /\ \/ Moves(s, "dispatch", "writeCompleted")
                                         \/ Moves(s, "dispatch", "writeError")
            /\ (status'[i] = "completed" /\ status[i] # "completed")
                 => \E s \in Slots : xid[s] = i /\ Moves(s, "writeCompleted", "done")]_vars

\* an execution ran through all its steps and returned success
C26_Witness ==
    \E s \in Slots : /\ pc[s] = "done" /\ outcome[s] = "success"
                      /\ status[xid[s]] = "completed"
                      /\ ocrCalls[xid[s]] = 1 /\ n8nCalls[xid[s]] = 1

\* addToQueue has been called for the upload
Submitted(i) == route[i] # "none" \/ directRuns[i] > 0 \/ job[i] # "none"

\* C28: in the upload route the row is inserted as pending, without link,
\* before addToQueue is called for it; addToQueue is called for the id of
\* the inserted row, as the next step of the route; after a failed insert
\* there is no row and addToQueue is never called for the file.
C28_InsertThenSubmit ==
    /\ [](\A i \in Ids : /\ (Submitted(i) => spc[i] \notin {"none", "insertFailed"})
                          /\ (spc[i] = "insertFailed"
                               => status[i] = Absent /\ pc[i] = "idle"))
    /\ [][\A i \in Ids :
            /\ (spc[i] = "none" /\ spc'[i] = "addToQueue")
                 => status'[i] = "pending" /\ link'[i] = NoLink /\ ~Submitted(i)'
            /\ (~Submitted(i) /\ Submitted(i)')
                 => spc[i] = "addToQueue" /\ spc'[i] # "addToQueue"
            /\ (spc[i] = "insertFailed" => spc'[i] = "insertFailed")]_vars

\* one upload's insert failed
C28_Witness ==
    \E i \in Ids : spc[i] = "insertFailed" /\ ~Submitted(i) /\ status[i] = Absent

\* C29: the text extractTextFromPdf returns is, for an answer with a page
\* list, the pages' texts in list order joined by a double newline, and for
\* an answer with a flat extracted_text field (and no page list) that text.
C29_CanonicalTextOfBothShapes ==
    fn.name = "extractTextFromPdf"
    => fn.res = IF fn.response.hasPages
                THEN Join([k \in 1..Len(fn.response.texto_extraido) |->
                             fn.response.texto_extraido[k].texto], "\n\n")
                ELSE IF fn.response.hasFlat THEN fn.response.extracted_text ELSE ""

\* C30: for every template of the closed set, isWebhookConfigured(t) holds
\* if and only if t is among getConfiguredTemplates(), and both exactly
\* when the template's URL is not empty.
C30_ConfiguredIffListed ==
    fn.name = "isWebhookConfigured"
    => /\ fn.res <=> (\E k \in 1..Len(fn.list) : fn.list[k] = fn.template)
       /\ fn.res <=> fn.url # ""

C30_Witness ==
    /\ fn.name = "isWebhookConfigured" /\ fn.res = FALSE
    /\ Len(fn.list) = 2 /\ fn.template = "fatura-bmg"

\* C32: an execution whose first select read status error (a retry after a
\* failed attempt) changes neither status nor link, calls neither the OCR
\* service nor a webhook, and ends at the check after the guarded update by
\* returning, not throwing; so of all deliveries of one job the worker
\* calls the OCR service in at most one.
C32_RetryOfErrorIsNoOp ==
    /\ [][\A s \in Slots :
            (/\ currentStatus[s] = "error"
             /\ pc[s] \in {"updateProcessing", "verify"} /\ pc'[s] \notin {pc[s], "idle"})
            => /\ UNCHANGED <<status, link, ocrCalls, n8nCalls, failReported>>
               /\ pc[s] = "updateProcessing" => pc'[s] = "verify"
               /\ pc[s] = "verify" => pc'[s] = "done" /\ outcome'[s] = "returned"]_vars
    /\ [](\A i \in Ids : ocrAttempts[i] <= 1)

\* the first delivery failed at the OCR service, the retry returned and the
\* queue recorded the job as completed
C32_Witness ==
    \E i \in Ids : /\ route[i] = "added" /\ attemptsMade[i] = 1 /\ job[i] = "completed"
                   /\ status[i] = "error" /\ ocrAttempts[i] = 1 /\ ocrCalls[i] = 1

\* C34: a cancel call that returns false has removed no job from the
\* queue: it does not return false from the position after remove() went
\* through, where the job it found waiting is gone and the record it could
\* not update is still pending, and its returning step removes nothing.
C34_FailedCancelRemovesNoJob ==
    [][\A i \in Ids :
        (CancelReturns(i) /\ cResult'[i] = FALSE)
        => (cpc[i] # "updateRemoved" /\ job'[i] = job[i])]_vars

\* C31: with the store's updates succeeding, every external call returning,
\* no crash, no drain, and the worker and the handlers scheduled fairly, a
\* record that is pending or processing eventually is completed, in error
\* or cancelled.
C31_EveryRecordEnds ==
    \A i \in Ids : (status[i] \in {"pending", "processing"})
                      ~> (status[i] \in {"completed", "error", "cancelled"})

\* a record handed to the queue has ended in error after the worker's first
\* delivery failed and its retry returned
C31_Witness ==
    \E i \in Ids : /\ Settled(i) /\ route[i] = "added" /\ job[i] = "completed"
                   /\ attemptsMade[i] = 1 /\ status[i] = "error" /\ cancelCalls = 0

\* the link a reader of the record sees for the link the execution returns
StoredAs(l) == IF l = Undefined THEN NoLink ELSE l

\* C33: when an execution returns the success result with link L, the
\* stored record has at that moment status completed and link L.
C33_SuccessMeansStoredCompleted ==
    [][\A s \in Slots :
        (pc[s] = "writeCompleted" /\ pc'[s] = "done" /\ outcome'[s] = "success")
        => /\ status'[xid[s]] = "completed"
           /\ link'[xid[s]] = StoredAs(xlink[s])]_vars

\* the upload's template passed the route's validation but has no entry in
\* webhookConfig
Unmapped(i) == template[i] \in ValidTemplates \ MappedTemplates

\* C35: for an upload whose template is valid but has no webhook entry, the
\* dispatcher makes no POST and returns a failure, on which the execution
\* goes to the error write; once nothing is left to happen to an upload
\* that got past the guard, its record is in error (the row not deleted,
\* the worker never lost).
C35_UnmappedTemplateEndsInError ==
    /\ [](\A i \in Ids :
            Unmapped(i)
            => /\ n8nCalls[i] = 0 /\ ~okReported[i]
               /\ \A s \in Slots : xid[s] = i => pc[s] # "writeCompleted"
               /\ (Settled(i) /\ passed[i] > 0 /\ status[i] # Absent
                     /\ stalledCount[i] = 0) => status[i] = "error")
    /\ [][\A s \in Slots :
            (pc[s] = "dispatch" /\ pc'[s] \notin {"dispatch", "idle"} /\ Unmapped(xid[s]))
            => /\ pc'[s] = "writeError"
               /\ failReported'[xid[s]]
               /\ n8nCalls' = n8nCalls]_vars

\* the OCR service answered, the dispatcher refused, the record is in error
C35_Witness ==
    \E i \in Ids : /\ Unmapped(i) /\ Settled(i) /\ status[i] = "error"
                   /\ ocrCalls[i] = 1 /\ ~ocrFailed[i] /\ n8nCalls[i] = 0

\* addToQueue has ended for an upload handed over on fallback route r whose
\* in-process run met a failure of the OCR service or of the webhook (the
\* row not being deleted)
FailedFallback(i, r) ==
    /\ route[i] = r /\ spc[i] \in {"returned", "threw"}
    /\ failReported[i] /\ status[i] # Absent

\* C36: a failure of the in-process run has the same outcome for the caller
\* of addToQueue on both fallback routes: after a rejected add the failure
\* leaves addToQueue as an exception, and so it does without Redis.
C36_SameOutcomeOnBothFallbacks ==
    \A i \in Ids :
      (FailedFallback(i, "unavailable") \/ FailedFallback(i, "rejected"))
      => spc[i] = "threw"

\* C37: a cancel call whose select finds no record returns false right
\* there: it reads no job of the queue, removes none and writes no status.
C37_CancelOfMissingRecordRefused ==
    [][\A i \in Ids :
         (cpc[i] = "select" /\ cpc'[i] # "select" /\ status[i] = Absent)
         => /\ cpc'[i] = "done" /\ cResult'[i] = FALSE
            /\ UNCHANGED <<status, link, job, cWaiting>>]_vars

\* the row was deleted while its job waited; the cancel call returned false
C37_Witness ==
    \E i \in Ids : /\ cpc[i] = "done" /\ cSeen[i] = Absent /\ cResult[i] = FALSE
                   /\ job[i] = "waiting"

\* C38: in every result of getQueueStats with Redis available, total is the
\* sum of waiting, active, completed and failed, and isProcessing holds
\* exactly when active is greater than zero.
C38_TotalIsSumOfCounts ==
    (call.op = "getQueueStats" /\ call.at = "done" /\ redisAvailable)
    => /\ call.res.total = call.res.waiting + call.res.active
                             + call.res.completed + call.res.failed
       /\ call.res.isProcessing <=> call.res.active > 0

\* the four lists were read while the job went from waiting to completed
C38_Witness ==
    /\ call.op = "getQueueStats" /\ call.at = "done" /\ ~call.readFailed
    /\ call.res.waiting = 1 /\ call.res.active = 1 /\ call.res.completed = 1
    /\ call.res.total = 3 /\ call.res.isProcessing

====
